---- MODULE Spec2Model ----
(***************************************************************************)
(* BigSkiesMQTTClient (bigskies_gtk/mqtt/client.py): the handler registry, *)
(* the connection flag, the dispatch of inbound messages and lifecycle     *)
(* events to the GLib main loop, and the wildcard matcher.                 *)
(*                                                                         *)
(* Two threads run the code.  The consumer (GTK main) thread calls         *)
(* set_callbacks, connect, disconnect and subscribe and runs the idle      *)
(* sources posted with GLib.idle_add.  The paho network-loop thread, which *)
(* loop_start() creates, calls _on_connect, _on_disconnect and _on_message.*)
(* The two loops over message_handlers in _on_connect and _on_message are  *)
(* modelled one dictionary-iterator step at a time, so that subscribe() on *)
(* the consumer thread can run between two steps.                          *)
(*                                                                         *)
(* Strings are sequences of one-character strings, so that str.split and   *)
(* string equality are computed and not assumed.                           *)
(***************************************************************************)
EXTENDS Integers, Sequences, FiniteSets, TLC

\* ------------------------------------------------------------- bounds
\* completed subscribe() registrations in one behaviour
MaxRegs == 2
\* idle sources pending on the GLib main loop
MaxIdle == 2
\* inbound messages that decode, in one behaviour
MaxMsgs == 2
\* publish() calls that reach the transport, in one behaviour
MaxPubs == 2
\* segments of a topic and of a pattern handed to _topic_matches
MaxTopicSegs == 4
MaxPatternSegs == 3

\* ------------------------------------------------------------- inputs
\* patterns handed to subscribe(): "a/+", "a/b", "a/c" and the malformed "#/b"
P_plus == << "a", "/", "+" >>
P_ab == << "a", "/", "b" >>
P_ac == << "a", "/", "c" >>
P_bad == << "#", "/", "b" >>
\* the topic of inbound messages: "a/b"
T_ab == << "a", "/", "b" >>
\* msg.payload: a JSON object, bytes that are not UTF-8, text that is not JSON
B_obj == "{\"value\": true}"
B_not_utf8 == "<0xff>"
B_not_json == "{"
\* an empty payload, and JSON that is not an object
B_empty == ""
B_list == "[1]"

\* ------------------------------------------------------------- matcher
RECURSIVE split(_, _, _)
\* str.split('/'), scanning from character i with the segment cur open
split(s, i, cur) ==
    IF i > Len(s) THEN << cur >>
    ELSE IF s[i] = "/" THEN << cur >> \o split(s, i + 1, << >>)
    ELSE split(s, i + 1, Append(cur, s[i]))

\* list.index('#'): the first position holding the segment "#"
index_of_hash(parts) ==
    CHOOSE i \in 1..Len(parts) :
        /\ parts[i] = << "#" >>
        /\ \A j \in 1..(i - 1) : parts[j] # << "#" >>

\* take, were lines 168-169 missing
take_all(parts, n) == parts

\* parts[:n]
take(parts, n) == SubSeq(parts, 1, IF n < Len(parts) THEN n ELSE Len(parts))

\* parts_match, were lines 171-172 missing: zip stops at the shorter list
parts_match_zip(topic_parts, pattern_parts) ==
    \A i \in 1..Len(pattern_parts) :
        i <= Len(topic_parts) =>
            (pattern_parts[i] = << "+" >> \/ pattern_parts[i] = topic_parts[i])

\* parts_match, were line 175 to compare '+' like any other part
parts_match_plus_literal(topic_parts, pattern_parts) ==
    /\ Len(topic_parts) = Len(pattern_parts)
    /\ \A i \in 1..Len(pattern_parts) : pattern_parts[i] = topic_parts[i]

\* lines 171-178: equal length, and each pattern part '+' or equal
parts_match(topic_parts, pattern_parts) ==
    /\ Len(topic_parts) = Len(pattern_parts)
    /\ \A i \in 1..Len(pattern_parts) :
          pattern_parts[i] = << "+" >> \/ pattern_parts[i] = topic_parts[i]

\* segments_match, were '#' to stand for one or more levels
segments_match_hash_needs_level(topic, pattern) ==
    LET topic_parts == split(topic, 1, << >>)
        pattern_parts == split(pattern, 1, << >>)
    IN  IF \E i \in 1..Len(pattern_parts) : pattern_parts[i] = << "#" >>
        THEN LET hash_idx == index_of_hash(pattern_parts) - 1
             IN  IF hash_idx # Len(pattern_parts) - 1
                 THEN FALSE
                 ELSE /\ Len(topic_parts) > hash_idx
                      /\ parts_match(take(topic_parts, hash_idx),
                                     take(pattern_parts, hash_idx))
        ELSE parts_match(topic_parts, pattern_parts)

\* lines 160-178: the segment-wise algorithm
segments_match(topic, pattern) ==
    LET topic_parts == split(topic, 1, << >>)
        pattern_parts == split(pattern, 1, << >>)
    IN  IF \E i \in 1..Len(pattern_parts) : pattern_parts[i] = << "#" >>
        THEN LET hash_idx == index_of_hash(pattern_parts) - 1
             IN  IF hash_idx # Len(pattern_parts) - 1
                 THEN FALSE
                 ELSE parts_match(take(topic_parts, hash_idx),
                                  take(pattern_parts, hash_idx))
        ELSE parts_match(topic_parts, pattern_parts)

\* _topic_matches(topic, pattern)
topic_matches(topic, pattern) ==
    IF pattern = topic THEN TRUE ELSE segments_match(topic, pattern)

\* ------------------------------------------------------------- payload
\* bytes.decode('utf-8'): raises UnicodeDecodeError on bytes that are not UTF-8
utf8_decodes(b) == b # "<0xff>"

\* decode_payload, were text that is not JSON to decode to {}
decode_payload_lenient(b) ==
    IF ~utf8_decodes(b) THEN [exc |-> "UnicodeDecodeError", val |-> "None"]
    ELSE IF b = "{\"value\": true}" THEN [exc |-> "none", val |-> "{'value': True}"]
    ELSE IF b = "[1]" THEN [exc |-> "none", val |-> "[1]"]
    ELSE [exc |-> "none", val |-> "{}"]

\* json.loads(payload_str) if payload_str else {}: the decoded value, or the
\* exception raised
decode_payload(b) ==
    IF ~utf8_decodes(b) THEN [exc |-> "UnicodeDecodeError", val |-> "None"]
    ELSE IF b = "" THEN [exc |-> "none", val |-> "{}"]
    ELSE IF b = "{\"value\": true}" THEN [exc |-> "none", val |-> "{'value': True}"]
    ELSE IF b = "[1]" THEN [exc |-> "none", val |-> "[1]"]
    ELSE [exc |-> "JSONDecodeError", val |-> "None"]

\* ------------------------------------------------------------- state
VARIABLES
    connected,            \* self.connected
    message_handlers,     \* self.message_handlers, in insertion order
    connect_callback,     \* self.connect_callback
    disconnect_callback,  \* self.disconnect_callback
    loopRunning,          \* the network-loop thread of client.loop_start()
    link,                 \* the transport's connection: down, pending, up, refused
    idleQueue,            \* the idle sources GLib.idle_add has posted, oldest first
    cpc,                  \* where the consumer thread is
    dpc,                  \* where the network-loop thread is
    regLog,               \* history: the registrations subscribe() completed
    subCalls,             \* history: client.subscribe calls made by subscribe()
    ranOn,                \* history: the threads callbacks have been invoked on
    errors,               \* history: the logger.error calls made, by line
    delivered,            \* history: the messages whose dispatch _on_message began
    raised,               \* history: never, raised (an idle source's callback
                          \* raised), then ran (and a later source has run)
    matcher,              \* a call of _topic_matches: its arguments and result
    connectResult,        \* history: what connect() last returned
    published,            \* history: the client.publish calls that returned
    brokerSubs,           \* the patterns subscribed on the connection that is up
    app                   \* BigSkiesApp: where it is, and what it has built

vars == << connected, message_handlers, connect_callback, disconnect_callback,
           loopRunning, link, idleQueue, cpc, dpc, regLog, subCalls, ranOn,
           errors, delivered, raised, matcher, connectResult, published,
           brokerSubs, app >>

\* the network-loop thread between two callbacks
NoCallback ==
    [ pc |-> "idle", topic |-> << >>, payload |-> "None", used |-> 0, pos |-> 0,
      sched |-> << >>, regs0 |-> 0, msg |-> 0 ]

\* the consumer thread outside subscribe()
ConsumerIdle == [ pc |-> "idle", topic |-> << >>, callback |-> "None" ]

\* no call of _topic_matches is modelled
NoCall == [ topic |-> << >>, pattern |-> << >>, called |-> FALSE, result |-> FALSE ]

\* the client is used without BigSkiesApp
NoApp == [ pc |-> "none", label |-> FALSE ]

\* __init__, lines 34-37
InitClient ==
    /\ connected = FALSE
    /\ message_handlers = << >>
    /\ connect_callback = "None"
    /\ disconnect_callback = "None"
    /\ loopRunning = FALSE
    /\ link = "down"
    /\ idleQueue = << >>
    /\ cpc = ConsumerIdle
    /\ dpc = NoCallback
    /\ regLog = << >>
    /\ subCalls = << >>
    /\ ranOn = { }
    /\ errors = { }
    /\ delivered = 0
    /\ raised = "never"
    /\ connectResult = "None"
    /\ published = 0
    /\ brokerSubs = { }

Init == InitClient /\ matcher = NoCall /\ app = NoApp

\* ------------------------------------------------------------- registry
\* topic in self.message_handlers
has_key(handlers, p) == \E i \in 1..Len(handlers) : handlers[i].topic = p

\* the position of topic's entry
key_index(handlers, p) == CHOOSE i \in 1..Len(handlers) : handlers[i].topic = p

\* self.message_handlers[topic] = []
new_entry(handlers, p) == Append(handlers, [ topic |-> p, handlers |-> << >> ])

\* append_handler, were line 81 to assign [callback]
append_handler_replacing(handlers, p, h, n) ==
    [ handlers EXCEPT ![key_index(handlers, p)].handlers = << [ cb |-> h, n |-> n ] >> ]

\* self.message_handlers[topic].append(callback); n is the registration's number
append_handler(handlers, p, h, n) ==
    [ handlers EXCEPT ![key_index(handlers, p)].handlers =
                         Append(@, [ cb |-> h, n |-> n ]) ]

\* the transport's own check of a subscription filter: '#' only as the last level
filter_ok(p) ==
    LET parts == split(p, 1, << >>)
    IN  \A i \in 1..Len(parts) : parts[i] = << "#" >> => i = Len(parts)

\* client.subscribe(topic): returns, or raises ValueError on a filter it rejects
transport_subscribe(p) == IF filter_ok(p) THEN { "ok" } ELSE { "ok", "ValueError" }

\* idle_add, were the main loop to run the newest source first
idle_add_lifo(queue, item) == << item >> \o queue

\* the broker's subscriptions after client.subscribe(p) returned: the transport
\* sends SUBSCRIBE only on a connection that is up
live_subscribe(p) == IF link = "up" THEN brokerSubs \cup { p } ELSE brokerSubs

\* GLib.idle_add(callback, *args)
idle_add(queue, item) == Append(queue, item)

\* the idle source of a lifecycle callback
lifecycle_source(cb) ==
    [ cb |-> cb, topic |-> << >>, payload |-> "None", n |-> 0, msg |-> 0 ]

\* ------------------------------------------------------------- consumer thread
\* set_callbacks(on_connect, on_disconnect), lines 43-44
set_callbacks(c, d) ==
    /\ cpc.pc = "idle"
    /\ connect_callback' = c
    /\ disconnect_callback' = d
    /\ UNCHANGED << connectResult, published, brokerSubs, app,
                    delivered, raised, matcher,
                    connected, message_handlers, loopRunning, link, idleQueue,
                    cpc, dpc, regLog, subCalls, ranOn, errors >>

\* logger.error(...) at the given line
log_error(line) == errors' = errors \cup { line }

\* connect_fails, were loop_start() called ahead of client.connect
connect_fails_loop_started ==
    /\ cpc.pc = "idle"
    /\ log_error(59)
    /\ connectResult' = "False"
    /\ loopRunning' = TRUE
    /\ UNCHANGED << published, brokerSubs, app,
                    delivered, raised, matcher,
                    connected, message_handlers, connect_callback,
                    disconnect_callback, link, idleQueue, cpc, dpc,
                    regLog, subCalls, ranOn >>

\* connect(), lines 53-60, when client.connect raises: the failure is logged
\* and False is returned
connect_fails ==
    /\ cpc.pc = "idle"
    /\ log_error(59)
    /\ connectResult' = "False"
    /\ UNCHANGED << published, brokerSubs, app,
                    delivered, raised, matcher,
                    connected, message_handlers, connect_callback,
                    disconnect_callback, loopRunning, link, idleQueue, cpc, dpc,
                    regLog, subCalls, ranOn >>

\* connect(), lines 53-57, when client.connect returns: loop_start() starts the
\* network loop and True is returned
connect_starts ==
    /\ cpc.pc = "idle"
    /\ link' = "pending"
    /\ loopRunning' = TRUE
    /\ connectResult' = "True"
    /\ UNCHANGED << published, brokerSubs, app,
                    delivered, raised, matcher,
                    connected, message_handlers, connect_callback,
                    disconnect_callback, idleQueue, cpc, dpc, regLog, subCalls,
                    ranOn, errors >>

\* on_disconnect_body, were lines 121-122 missing
on_disconnect_body_silent ==
    /\ connected' = FALSE
    /\ UNCHANGED idleQueue

\* _on_disconnect, lines 117-122: the flag is cleared, then the callback posted
on_disconnect_body ==
    /\ connected' = FALSE
    /\ idleQueue' = IF disconnect_callback # "None"
                    THEN idle_add(idleQueue, lifecycle_source(disconnect_callback))
                    ELSE idleQueue

\* disconnect, were it to remove the idle sources that are pending
disconnect_cancelling(outcome) ==
    /\ cpc.pc = "idle"
    /\ dpc.pc = "idle"
    /\ loopRunning' = FALSE
    /\ link' = "down"
    /\ idleQueue' = << >>
    /\ connected' = IF outcome = "reports" THEN FALSE ELSE connected
    /\ brokerSubs' = { }
    /\ UNCHANGED << connectResult, published, app,
                    delivered, raised, matcher,
                    message_handlers, connect_callback, disconnect_callback,
                    cpc, dpc, regLog, subCalls, ranOn, errors >>

\* disconnect(), lines 64-66.  loop_stop() joins the network loop, so it returns
\* once the callback in progress has returned.  client.disconnect() then raises
\* ("raises"), or returns after the transport has called _on_disconnect on the
\* calling thread ("reports"), or returns with nothing reported ("silent").
disconnect(outcome) ==
    /\ cpc.pc = "idle"
    /\ dpc.pc = "idle"
    /\ loopRunning' = FALSE
    /\ CASE outcome = "raises" -> UNCHANGED << connected, idleQueue, link >>
         [] outcome = "reports" -> /\ link # "down"
                                   /\ Len(idleQueue) < MaxIdle
                                   /\ on_disconnect_body
                                   /\ link' = "down"
         [] outcome = "silent" -> /\ link' = "down"
                                  /\ UNCHANGED << connected, idleQueue >>
    /\ brokerSubs' = IF outcome = "raises" THEN brokerSubs ELSE { }
    /\ UNCHANGED << connectResult, published, app,
                    delivered, raised, matcher,
                    message_handlers, connect_callback, disconnect_callback,
                    cpc, dpc, regLog, subCalls, ranOn, errors >>

\* publish, were lines 96-97 to mark the client disconnected
publish_marking_disconnected(outcome) ==
    /\ cpc.pc = "idle"
    /\ IF outcome = "returns"
       THEN /\ published < MaxPubs
            /\ published' = published + 1
            /\ UNCHANGED << errors, connected >>
       ELSE /\ log_error(97)
            /\ connected' = FALSE
            /\ UNCHANGED published
    /\ UNCHANGED << connectResult, brokerSubs, app, delivered, raised, matcher,
                    message_handlers, connect_callback, disconnect_callback,
                    loopRunning, link, idleQueue, cpc, dpc, regLog, subCalls,
                    ranOn >>

\* publish, were lines 93-95 outside a try
publish_unguarded(outcome) ==
    /\ cpc.pc = "idle"
    /\ IF outcome = "returns"
       THEN /\ published < MaxPubs
            /\ published' = published + 1
       ELSE /\ published < MaxPubs
            /\ published' = MaxPubs
    /\ UNCHANGED << connectResult, brokerSubs, app, delivered, raised, matcher,
                    connected, message_handlers, connect_callback,
                    disconnect_callback, loopRunning, link, idleQueue, cpc, dpc,
                    regLog, subCalls, ranOn, errors >>

\* publish(topic, payload, qos), lines 92-97: client.publish returns, whatever
\* its result code ("returns"), or json.dumps raises ("dumps raises"), or
\* client.publish raises ("publish raises"); an exception is logged at line 97
\* and publish() returns
publish(outcome) ==
    /\ cpc.pc = "idle"
    /\ IF outcome = "returns"
       THEN /\ published < MaxPubs
            /\ published' = published + 1
            /\ UNCHANGED errors
       ELSE /\ log_error(97)
            /\ UNCHANGED published
    /\ UNCHANGED << connectResult, brokerSubs, app, delivered, raised, matcher,
                    connected, message_handlers, connect_callback,
                    disconnect_callback, loopRunning, link, idleQueue, cpc, dpc,
                    regLog, subCalls, ranOn >>

\* line 76: topic not in self.message_handlers
is_new_topic(p) == ~has_key(message_handlers, p)

\* subscribe_known, were line 78 outside the test of line 76
subscribe_known_resubscribing(p, h) ==
    /\ cpc.pc = "idle"
    /\ Len(regLog) < MaxRegs
    /\ ~is_new_topic(p)
    /\ subCalls' = Append(subCalls, p)
    /\ message_handlers' = append_handler(message_handlers, p, h, Len(regLog) + 1)
    /\ regLog' = Append(regLog, [ topic |-> p, cb |-> h ])
    /\ brokerSubs' = live_subscribe(p)
    /\ UNCHANGED << connectResult, published, app,
                    delivered, raised, matcher,
                    connected, connect_callback, disconnect_callback, loopRunning,
                    link, idleQueue, cpc, dpc, ranOn, errors >>

\* subscribe(topic, callback) on a topic that has an entry: line 76 is false,
\* line 81 appends
subscribe_known(p, h) ==
    /\ cpc.pc = "idle"
    /\ Len(regLog) < MaxRegs
    /\ ~is_new_topic(p)
    /\ message_handlers' = append_handler(message_handlers, p, h, Len(regLog) + 1)
    /\ regLog' = Append(regLog, [ topic |-> p, cb |-> h ])
    /\ UNCHANGED << connectResult, published, brokerSubs, app,
                    delivered, raised, matcher,
                    connected, connect_callback, disconnect_callback, loopRunning,
                    link, idleQueue, cpc, dpc, subCalls, ranOn, errors >>

\* subscribe(topic, callback) on a new topic, lines 76-77: the entry is created
subscribe_new(p, h) ==
    /\ cpc.pc = "idle"
    /\ Len(regLog) < MaxRegs
    /\ is_new_topic(p)
    /\ message_handlers' = new_entry(message_handlers, p)
    /\ cpc' = [ pc |-> "subscribe", topic |-> p, callback |-> h ]
    /\ UNCHANGED << connectResult, published, brokerSubs, app,
                    delivered, raised, matcher,
                    connected, connect_callback, disconnect_callback, loopRunning,
                    link, idleQueue, dpc, regLog, subCalls, ranOn, errors >>

\* subscribe(topic, callback) on a new topic, lines 78-81: client.subscribe,
\* and unless it raised, the handler appended
subscribe_finish ==
    /\ cpc.pc = "subscribe"
    /\ subCalls' = Append(subCalls, cpc.topic)
    /\ \E r \in transport_subscribe(cpc.topic) :
          IF r = "ok"
          THEN /\ message_handlers' = append_handler(message_handlers, cpc.topic,
                                                     cpc.callback, Len(regLog) + 1)
               /\ regLog' = Append(regLog, [ topic |-> cpc.topic, cb |-> cpc.callback ])
               /\ brokerSubs' = live_subscribe(cpc.topic)
          ELSE UNCHANGED << message_handlers, regLog, brokerSubs >>
    /\ cpc' = ConsumerIdle
    /\ UNCHANGED << connectResult, published, app,
                    delivered, raised, matcher,
                    connected, connect_callback, disconnect_callback, loopRunning,
                    link, idleQueue, dpc, ranOn, errors >>

\* one dispatch of the GLib main loop: the oldest idle source runs on the
\* consumer thread and, returning None, is removed
run_idle ==
    /\ cpc.pc = "idle"
    /\ idleQueue # << >>
    /\ ranOn' = ranOn \cup { "consumer" }
    /\ idleQueue' = Tail(idleQueue)
    /\ raised' = IF raised = "raised" THEN "then ran" ELSE raised
    /\ UNCHANGED << connectResult, published, brokerSubs, app,
                    delivered, matcher,
                    connected, message_handlers, connect_callback,
                    disconnect_callback, loopRunning, link, cpc, dpc, regLog,
                    subCalls, errors >>

\* run_idle_raising, were an exception of a callback to end the main loop
run_idle_raising_quits ==
    /\ cpc.pc = "idle"
    /\ idleQueue # << >>
    /\ ranOn' = ranOn \cup { "consumer" }
    /\ idleQueue' = << >>
    /\ raised' = "raised"
    /\ UNCHANGED << connectResult, published, brokerSubs, app,
                    delivered, matcher,
                    connected, message_handlers, connect_callback,
                    disconnect_callback, loopRunning, link, cpc, dpc, regLog,
                    subCalls, errors >>

\* one dispatch of the GLib main loop in which the callback raises: the main
\* loop reports the exception, removes the source and goes on
run_idle_raising ==
    /\ cpc.pc = "idle"
    /\ idleQueue # << >>
    /\ ranOn' = ranOn \cup { "consumer" }
    /\ idleQueue' = Tail(idleQueue)
    /\ raised' = "raised"
    /\ UNCHANGED << connectResult, published, brokerSubs, app,
                    delivered, matcher,
                    connected, message_handlers, connect_callback,
                    disconnect_callback, loopRunning, link, cpc, dpc, regLog,
                    subCalls, errors >>

\* ------------------------------------------------------------- network-loop thread
\* iter(self.message_handlers): the iterator remembers the dictionary's size
dict_iter(d, loop) == [ d EXCEPT !.pc = loop, !.used = Len(message_handlers), !.pos = 0 ]

\* next() on the dictionary iterator finds the size changed: RuntimeError
size_changed == Len(message_handlers) # dpc.used

\* _on_connect(rc) with rc 0, lines 101-106: the flag is set and the loop over
\* message_handlers.keys() begins
on_connect_accepted ==
    /\ loopRunning
    /\ dpc.pc = "idle"
    /\ link = "pending"
    /\ connected' = TRUE
    /\ link' = "up"
    /\ dpc' = dict_iter(NoCallback, "conn_iter")
    /\ brokerSubs' = { }
    /\ UNCHANGED << connectResult, published, app,
                    delivered, raised, matcher,
                    message_handlers, connect_callback, disconnect_callback,
                    loopRunning, idleQueue, cpc, regLog, subCalls, ranOn, errors >>

\* _on_connect(rc) with another rc, lines 112-113: the failure is logged
on_connect_refused ==
    /\ loopRunning
    /\ dpc.pc = "idle"
    /\ link = "pending"
    /\ link' = "refused"
    /\ log_error(113)
    /\ UNCHANGED << connectResult, published, brokerSubs, app,
                    delivered, raised, matcher,
                    connected, message_handlers, connect_callback,
                    disconnect_callback, loopRunning, idleQueue, cpc, dpc, regLog,
                    subCalls, ranOn >>

\* lines 110-111: the connect callback, when there is one, is posted
post_connect_callback ==
    IF connect_callback # "None"
    THEN /\ Len(idleQueue) < MaxIdle
         /\ idleQueue' = idle_add(idleQueue, lifecycle_source(connect_callback))
    ELSE UNCHANGED idleQueue

\* _on_connect, lines 106-111, one step of the loop: the iterator raises
\* RuntimeError, or yields the next topic for client.subscribe (which may raise
\* ValueError), or is exhausted and the connect callback is posted.  An
\* exception leaves _on_connect and ends the network-loop thread.
on_connect_next ==
    /\ dpc.pc = "conn_iter"
    /\ IF size_changed
       THEN /\ dpc' = NoCallback
            /\ loopRunning' = FALSE
            /\ UNCHANGED << idleQueue, brokerSubs >>
       ELSE IF dpc.pos < dpc.used
       THEN \E r \in transport_subscribe(message_handlers[dpc.pos + 1].topic) :
               IF r = "ok"
               THEN /\ dpc' = [ dpc EXCEPT !.pos = @ + 1 ]
                    /\ brokerSubs' = live_subscribe(message_handlers[dpc.pos + 1].topic)
                    /\ UNCHANGED << loopRunning, idleQueue >>
               ELSE /\ dpc' = NoCallback
                    /\ loopRunning' = FALSE
                    /\ UNCHANGED << idleQueue, brokerSubs >>
       ELSE /\ post_connect_callback
            /\ dpc' = NoCallback
            /\ UNCHANGED << loopRunning, brokerSubs >>
    /\ UNCHANGED << connectResult, published, app,
                    delivered, raised, matcher,
                    connected, message_handlers, connect_callback,
                    disconnect_callback, link, cpc, regLog, subCalls, ranOn, errors >>

\* on_disconnect, were line 122 to call the callback instead of posting it
on_disconnect_inline ==
    /\ loopRunning
    /\ dpc.pc = "idle"
    /\ link \in { "up", "refused" }
    /\ connected' = FALSE
    /\ ranOn' = IF disconnect_callback # "None" THEN ranOn \cup { "network loop" }
                ELSE ranOn
    /\ link' = "pending"
    /\ brokerSubs' = { }
    /\ UNCHANGED << connectResult, published, app,
                    delivered, raised, matcher,
                    message_handlers, connect_callback, disconnect_callback,
                    loopRunning, idleQueue, cpc, dpc, regLog, subCalls, errors >>

\* _on_disconnect(rc), lines 117-122, called by the network loop, which then
\* tries to connect again
on_disconnect ==
    /\ loopRunning
    /\ dpc.pc = "idle"
    /\ link \in { "up", "refused" }
    /\ Len(idleQueue) < MaxIdle
    /\ on_disconnect_body
    /\ link' = "pending"
    /\ brokerSubs' = { }
    /\ UNCHANGED << connectResult, published, app,
                    delivered, raised, matcher,
                    message_handlers, connect_callback, disconnect_callback,
                    loopRunning, cpc, dpc, regLog, subCalls, ranOn, errors >>

\* _on_message(msg), lines 126-134 and 140-143: the payload is decoded; a
\* payload that does not decode is logged and the message dropped, any other
\* starts the loop over message_handlers.items()
on_message_begin(t, b) ==
    /\ loopRunning
    /\ dpc.pc = "idle"
    /\ link = "up"
    /\ LET d == decode_payload(b)
       IN  IF d.exc # "none"
           THEN /\ log_error(IF d.exc = "JSONDecodeError" THEN 141 ELSE 143)
                /\ UNCHANGED << dpc, delivered >>
           ELSE /\ delivered < MaxMsgs
                /\ delivered' = delivered + 1
                /\ dpc' = dict_iter([ NoCallback EXCEPT !.topic = t,
                                                        !.payload = d.val,
                                                        !.regs0 = Len(regLog),
                                                        !.msg = delivered + 1 ],
                                    "msg_iter")
                /\ UNCHANGED errors
    /\ UNCHANGED << connectResult, published, brokerSubs, app,
                    raised, matcher,
                    connected, message_handlers, connect_callback,
                    disconnect_callback, loopRunning, link, idleQueue, cpc, regLog,
                    subCalls, ranOn >>

\* handlers_of, were the loop of line 136 to visit the list backwards
handlers_of_reversed(entry) ==
    [ i \in 1..Len(entry.handlers) |-> entry.handlers[Len(entry.handlers) + 1 - i] ]

\* line 136: the handlers of one registry entry, in the order the loop visits them
handlers_of(entry) == entry.handlers

\* line 135: the handlers to post for one registry entry
matching_handlers(t, entry) ==
    IF topic_matches(t, entry.topic) THEN handlers_of(entry) ELSE << >>

\* line 138: the idle source of one handler
\* m is the number of the message, in the order of delivery
handler_source(h, t, payload, m) ==
    [ cb |-> h.cb, topic |-> t, payload |-> payload, n |-> h.n, msg |-> m ]

RECURSIVE post_handlers(_, _, _, _, _)
\* lines 136-138: one GLib.idle_add per handler, in order
post_handlers(queue, hs, t, payload, m) ==
    IF hs = << >> THEN queue
    ELSE post_handlers(idle_add(queue, handler_source(Head(hs), t, payload, m)),
                       Tail(hs), t, payload, m)

\* the registration numbers of a handler list
numbers(hs) == [ i \in 1..Len(hs) |-> hs[i].n ]

\* _on_message, lines 134-138 and 142-143, one step of the loop: the iterator
\* raises RuntimeError, which line 142 catches, or yields the next entry, whose
\* handlers are posted when the topic matches, or is exhausted
on_message_next ==
    /\ dpc.pc = "msg_iter"
    /\ IF size_changed
       THEN /\ dpc' = NoCallback
            /\ log_error(143)
            /\ UNCHANGED idleQueue
       ELSE IF dpc.pos < dpc.used
       THEN LET hs == matching_handlers(dpc.topic, message_handlers[dpc.pos + 1])
            IN  /\ Len(idleQueue) + Len(hs) <= MaxIdle
                /\ idleQueue' = post_handlers(idleQueue, hs, dpc.topic, dpc.payload,
                                              dpc.msg)
                /\ dpc' = [ dpc EXCEPT !.pos = @ + 1, !.sched = @ \o numbers(hs) ]
                /\ UNCHANGED errors
       ELSE /\ dpc' = NoCallback
            /\ UNCHANGED << idleQueue, errors >>
    /\ UNCHANGED << connectResult, published, brokerSubs, app,
                    delivered, raised, matcher,
                    connected, message_handlers, connect_callback,
                    disconnect_callback, loopRunning, link, cpc, regLog, subCalls,
                    ranOn >>

\* the network-loop thread is in one of its loops over self.message_handlers
\* (lines 106 and 134)
registry_iterator_open == dpc.pc \in { "conn_iter", "msg_iter" }

\* a step of a callback the transport calls on the network-loop thread
\* (lines 30-32)
OnDeliveryContext ==
    \/ on_connect_accepted
    \/ on_connect_refused
    \/ on_connect_next
    \/ on_disconnect
    \/ \E b \in { B_obj, B_not_utf8, B_not_json } : on_message_begin(T_ab, b)
    \/ on_message_next

\* ------------------------------------------------------------- matcher calls
\* the segments a topic and a pattern are made of
TopicSegs == { << >>, << "a" >>, << "b" >>, << "#" >> }
PatternSegs == { << >>, << "a" >>, << "b" >>, << "+" >>, << "#" >> }

\* the lists of one to n segments
SegLists(segs, n) == UNION { [ 1..k -> segs ] : k \in 1..n }

RECURSIVE join(_)
\* '/'.join(parts): the string that has these segments
join(parts) ==
    IF Len(parts) = 1 THEN parts[1]
    ELSE parts[1] \o << "/" >> \o join(Tail(parts))

\* the arguments of one call of _topic_matches
InitMatch ==
    /\ InitClient
    /\ app = NoApp
    /\ \E ts \in SegLists(TopicSegs, MaxTopicSegs),
          ps \in SegLists(PatternSegs, MaxPatternSegs) :
          matcher = [ NoCall EXCEPT !.topic = join(ts), !.pattern = join(ps) ]

\* _topic_matches(topic, pattern) is called and returns
call_topic_matches ==
    /\ ~matcher.called
    /\ matcher' = [ matcher EXCEPT !.called = TRUE,
                                   !.result = topic_matches(matcher.topic,
                                                            matcher.pattern) ]
    /\ UNCHANGED << connectResult, published, brokerSubs, app,
                    connected, message_handlers, connect_callback,
                    disconnect_callback, loopRunning, link, idleQueue, cpc, dpc,
                    regLog, subCalls, ranOn, errors, delivered, raised >>

\* ------------------------------------------------------------- application
\* BigSkiesApp (app.py).  app.pc is where the main thread is: in _show_login
\* ("login"), in _build_main_window ("building"), in the main loop with the
\* window shown ("running"), in the dialog of _show_error ("error dialog"),
\* in do_shutdown ("shutting down"), or gone ("quit"); app.label tells whether
\* self.mqtt_status_label exists.

\* _show_login, lines 57-60: the client has just been constructed
InitApp ==
    /\ InitClient
    /\ matcher = NoCall
    /\ app = [ pc |-> "login", label |-> FALSE ]

\* the client's variables, which a step of the application alone leaves alone
client_vars ==
    << connected, message_handlers, connect_callback, disconnect_callback,
       loopRunning, link, idleQueue, cpc, dpc, regLog, subCalls, ranOn, errors,
       delivered, raised, matcher, connectResult, published, brokerSubs >>

\* main_loop_running, were _build_main_window to iterate the main loop
main_loop_running_while_building ==
    app.pc \in { "building", "running", "error dialog" }

\* the main thread is in a GLib main loop: Gtk.Application.run() after
\* activation, or dialog.run() of _show_error (app.py line 245)
main_loop_running == app.pc \in { "running", "error dialog" }

\* _show_login, app.py lines 63-66
app_set_callbacks ==
    /\ app.pc = "login"
    /\ connect_callback = "None"
    /\ connectResult = "None"
    /\ set_callbacks("on_connected", "on_disconnected")

\* _show_login, app.py line 68: connect() is called
app_connect ==
    /\ app.pc = "login"
    /\ connect_callback # "None"
    /\ connectResult = "None"
    /\ connect_starts \/ connect_fails

\* _show_login, app.py lines 68-73: the branch on what connect() returned
app_after_connect ==
    /\ app.pc = "login"
    /\ connectResult # "None"
    /\ app' = [ app EXCEPT !.pc = IF connectResult = "True" THEN "building"
                                   ELSE "error dialog" ]
    /\ UNCHANGED client_vars

\* _build_main_window, app.py lines 80-95: the window and the status label
app_create_label ==
    /\ app.pc = "building"
    /\ ~app.label
    /\ app' = [ app EXCEPT !.label = TRUE ]
    /\ UNCHANGED client_vars

\* _build_main_window, app.py lines 107-114: the panels subscribe
app_panel_subscribes(p, h) ==
    /\ app.pc = "building"
    /\ app.label
    /\ subscribe_new(p, h) \/ subscribe_known(p, h)

\* _build_main_window, app.py line 128, and the return to the main loop
app_show_all ==
    /\ app.pc = "building"
    /\ app.label
    /\ cpc.pc = "idle"
    /\ app' = [ app EXCEPT !.pc = "running" ]
    /\ UNCHANGED client_vars

\* the main loop runs the oldest idle source
app_run_idle == main_loop_running /\ run_idle

\* _show_login, app.py lines 72-73: the dialog is closed and quit() called
app_quit ==
    /\ app.pc = "error dialog"
    /\ app' = [ app EXCEPT !.pc = "quit" ]
    /\ UNCHANGED client_vars

\* the window is closed: do_shutdown begins
app_close_window ==
    /\ app.pc = "running"
    /\ app' = [ app EXCEPT !.pc = "shutting down" ]
    /\ UNCHANGED client_vars

\* do_shutdown, app.py lines 251-252
app_shutdown(outcome) ==
    /\ app.pc = "shutting down"
    /\ loopRunning
    /\ disconnect(outcome)

\* ------------------------------------------------------------- specifications
\* the application's calls and the transport's events, for the given inputs
Calls(patterns, handlers) ==
    \/ \E p \in patterns, h \in handlers : subscribe_known(p, h)
    \/ \E p \in patterns, h \in handlers : subscribe_new(p, h)
    \/ subscribe_finish
    \/ run_idle
    \/ connect_starts

Lifecycle ==
    \/ set_callbacks("on_connected", "on_disconnected")
    \/ set_callbacks("None", "None")
    \/ connect_fails
    \/ \E o \in { "raises", "reports", "silent" } : disconnect(o)
    \/ on_connect_accepted
    \/ on_connect_refused
    \/ on_connect_next
    \/ on_disconnect

Messages(payloads) ==
    \/ \E b \in payloads : on_message_begin(T_ab, b)
    \/ on_message_next

\* every operation, one pattern and one handler
Next ==
    \/ Calls({ P_plus }, { "h1" })
    \/ Lifecycle
    \/ Messages({ B_obj, B_not_utf8 })

Spec == Init /\ [][Next]_vars

\* the registry and the connection lifecycle, without inbound messages
NextLifecycle ==
    \/ Calls({ P_plus, P_ab, P_bad }, { "h1" })
    \/ Lifecycle

SpecLifecycle == Init /\ [][NextLifecycle]_vars

\* the registry and the dispatch of inbound messages on one connection
NextDispatch ==
    \/ Calls({ P_plus, P_ab, P_ac }, { "h1", "h2" })
    \/ on_connect_accepted
    \/ on_connect_next
    \/ Messages({ B_obj, B_not_utf8, B_not_json })

SpecDispatch == Init /\ [][NextDispatch]_vars

\* the idle queue across failing callbacks and disconnects: two patterns, one
\* handler, one payload
NextQueue ==
    \/ Calls({ P_plus, P_ab }, { "h1" })
    \/ run_idle_raising
    \/ set_callbacks("on_connected", "on_disconnected")
    \/ \E o \in { "raises", "reports", "silent" } : disconnect(o)
    \/ on_connect_accepted
    \/ on_connect_next
    \/ on_disconnect
    \/ Messages({ B_obj })

SpecQueue == Init /\ [][NextQueue]_vars

\* the calls of the application and what they return: connect, disconnect,
\* subscribe and publish with their error paths, and inbound messages; the one
\* pattern is the malformed one, which matches no message
NextCalls ==
    \/ subscribe_known(P_bad, "h1")
    \/ subscribe_new(P_bad, "h1")
    \/ subscribe_finish
    \/ connect_starts
    \/ connect_fails
    \/ \E o \in { "raises", "reports", "silent" } : disconnect(o)
    \/ \E o \in { "returns", "dumps raises", "publish raises" } : publish(o)
    \/ on_connect_accepted
    \/ on_connect_next
    \/ on_disconnect
    \/ Messages({ B_obj, B_not_json })

SpecCalls == Init /\ [][NextCalls]_vars

\* the payloads of inbound messages: one pattern, one handler
NextPayload ==
    \/ Calls({ P_plus }, { "h1" })
    \/ on_connect_accepted
    \/ on_connect_next
    \/ Messages({ B_obj, B_empty, B_list, B_not_json })

SpecPayload == Init /\ [][NextPayload]_vars

\* the application from _show_login on, with the transport's lifecycle events
NextApp ==
    \/ app_set_callbacks
    \/ app_connect
    \/ app_after_connect
    \/ app_create_label
    \/ \E p \in { P_plus, P_ab }, h \in { "h1" } : app_panel_subscribes(p, h)
    \/ subscribe_finish
    \/ app_show_all
    \/ app_run_idle
    \/ app_quit
    \/ app_close_window
    \/ \E o \in { "raises", "reports", "silent" } : app_shutdown(o)
    \/ on_connect_accepted
    \/ on_connect_refused
    \/ on_connect_next
    \/ on_disconnect

SpecApp == InitApp /\ [][NextApp]_vars

\* the matcher alone, on every topic and pattern of the bounded sets
NextMatch == call_topic_matches

SpecMatch == InitMatch /\ [][NextMatch]_vars

\* ------------------------------------------------------------- claims
\* how often x occurs in the sequence q
Count(q, x) == Cardinality({ i \in 1..Len(q) : q[i] = x })

\* '#' occurs in the pattern only as its last segment
HashOnlyLast(p) == filter_ok(p)

\* C1: every callback (message handler, connect callback, disconnect callback)
\* is invoked on the consumer thread only; _on_message, _on_connect and
\* _on_disconnect post it with GLib.idle_add and never call it themselves.
C1_CallbacksOnConsumerOnly == ranOn \subseteq { "consumer" }

\* a callback has run on the consumer thread while _on_message is in its loop,
\* subscribe() is between its two halves and idle sources are pending
C1_Witness ==
    /\ ranOn = { "consumer" }
    /\ dpc.pc = "msg_iter"
    /\ cpc.pc = "subscribe"
    /\ idleQueue # << >>

\* C2: subscribe() calls client.subscribe for a pattern once, when the pattern's
\* entry is created, and never again for that pattern.
C2_OneBrokerSubscribePerPattern ==
    \A p \in { P_plus, P_ab, P_bad } :
        Count(subCalls, p) =
            IF has_key(message_handlers, p) /\ ~(cpc.pc = "subscribe" /\ cpc.topic = p)
            THEN 1 ELSE 0

\* two handlers are registered on one pattern
C2_Witness ==
    \E i \in 1..Len(message_handlers) :
        /\ Len(message_handlers[i].handlers) = 2
        /\ Count(subCalls, message_handlers[i].topic) = 1

\* C3: subscribe() rejects a pattern with '#' before its last segment: such a
\* pattern gets no registry entry, no handler and no broker-level subscribe.
C3_MalformedPatternRejected ==
    /\ \A i \in 1..Len(message_handlers) : HashOnlyLast(message_handlers[i].topic)
    /\ \A i \in 1..Len(subCalls) : HashOnlyLast(subCalls[i])
    /\ \A i \in 1..Len(regLog) : HashOnlyLast(regLog[i].topic)

\* this step posts the connect callback, once
ConnectPosted == idleQueue' = Append(idleQueue, lifecycle_source("on_connected"))

\* this step posts the disconnect callback, once
DisconnectPosted == idleQueue' = Append(idleQueue, lifecycle_source("on_disconnected"))

\* this step is the last of an _on_connect call that was given rc 0
OnConnectReturns == dpc.pc = "conn_iter" /\ dpc'.pc = "idle"

\* C4: each time, and only when, the transport reports rc 0, the flag is set,
\* client.subscribe is called once for every pattern of the registry, and after
\* that the connect callback is posted once; another rc does none of this.
C4_ResubscribeThenCallback ==
    [][ /\ on_connect_accepted => connected'
        /\ (connected' /\ ~connected) => on_connect_accepted
        /\ OnConnectReturns =>
              /\ dpc.pos = Len(message_handlers)
              /\ connect_callback # "None" => ConnectPosted
        /\ ConnectPosted => (OnConnectReturns /\ dpc.pos = dpc.used)
        /\ on_connect_refused => UNCHANGED << connected, idleQueue, dpc >>
      ]_vars

\* a call of _on_disconnect: by the network loop, or inside client.disconnect()
OnDisconnectCalled == on_disconnect \/ disconnect("reports")

\* C5, as claimed: the disconnect callback is posted once for each change of the
\* flag from True to False, and at no other time.
C5_CallbackOnlyOnLeavingConnected ==
    [][ disconnect_callback # "None" =>
           /\ (connected /\ ~connected') => DisconnectPosted
           /\ DisconnectPosted => (connected /\ ~connected')
      ]_vars

\* C5, amended: the disconnect callback is posted once by every call of
\* _on_disconnect, whatever the flag was, and by nothing else; so it is posted
\* once for each change of the flag from True to False.
C5_CallbackOnEveryDisconnectReport ==
    [][ disconnect_callback # "None" =>
           /\ OnDisconnectCalled => (DisconnectPosted /\ ~connected')
           /\ DisconnectPosted => OnDisconnectCalled
           /\ (connected /\ ~connected') => DisconnectPosted
      ]_vars

\* two disconnect callbacks are pending, so one of them was posted while the
\* flag was already False
C5_Witness ==
    /\ ~connected
    /\ idleQueue = << lifecycle_source("on_disconnected"),
                      lifecycle_source("on_disconnected") >>

\* C6: once disconnect() has been called the flag is False, whatever
\* client.disconnect() did.
C6_DisconnectClearsFlag ==
    [][ (\E o \in { "raises", "reports", "silent" } : disconnect(o)) => ~connected' ]_vars

\* self.connected is all the connection state the client keeps
ConnState == IF connected THEN "Connected" ELSE "Disconnected"

\* C7: a connection attempt that fails (client.connect raising, or a non-zero
\* rc) puts the client in the state Error and posts the disconnect callback.
C7_FailedConnectIsErrorState ==
    [][ (connect_fails \/ on_connect_refused) =>
           /\ ConnState' = "Error"
           /\ disconnect_callback # "None" => DisconnectPosted
      ]_vars

\* C8: a message whose payload does not decode (not UTF-8, or not JSON) posts no
\* handler, raises nothing out of _on_message and leaves the registry and the
\* connection as they were; the network loop is then ready for the next message.
C8_UndecodableMessageDropped ==
    [][ \A b \in { B_not_utf8, B_not_json } :
           on_message_begin(T_ab, b) =>
              /\ dpc'.pc = "idle"
              /\ UNCHANGED << idleQueue, message_handlers, regLog, connected,
                              loopRunning, link >>
      ]_vars

\* after messages of both kinds were dropped, a later message is being
\* dispatched and has had a handler posted
C8_Witness ==
    /\ errors = { 141, 143 }
    /\ dpc.pc = "msg_iter"
    /\ dpc.sched # << >>
    /\ Len(idleQueue) = Len(dpc.sched)

\* this step is the last of an _on_message call whose payload decoded
OnMessageReturns == dpc.pc = "msg_iter" /\ dpc'.pc = "idle"

\* the idle source of registration n for the message being dispatched
SourceOf(n) ==
    [ cb |-> regLog[n].cb, topic |-> dpc.topic, payload |-> dpc.payload, n |-> n,
      msg |-> dpc.msg ]

\* C9: for a message that decoded, every handler registered under a matching
\* pattern when the message arrived is posted once, with the topic and the
\* decoded payload, once per registration; no handler of a pattern that does
\* not match is posted.
C9_EveryMatchingHandlerOnce ==
    [][ /\ OnMessageReturns =>
              \A n \in 1..Len(regLog) :
                 Count(dpc.sched, n) =
                    IF topic_matches(dpc.topic, regLog[n].topic)
                    THEN (IF n <= dpc.regs0 THEN 1 ELSE Count(dpc.sched, n))
                    ELSE 0
        /\ (dpc.pc = "msg_iter" /\ dpc'.pc = "msg_iter" /\ dpc' # dpc) =>
              LET new == SubSeq(dpc'.sched, Len(dpc.sched) + 1, Len(dpc'.sched))
              IN  /\ idleQueue' = idleQueue \o [ i \in 1..Len(new) |-> SourceOf(new[i]) ]
                  /\ \A i \in 1..Len(new) : Count(dpc'.sched, new[i]) = 1
      ]_vars

\* the number of the first registration of pattern p
FirstReg(p) ==
    CHOOSE k \in 1..Len(regLog) :
        /\ regLog[k].topic = p
        /\ \A j \in 1..(k - 1) : regLog[j].topic # p

\* registration a is dispatched before registration b: its pattern was
\* registered first, or they share the pattern and a was registered first
Before(a, b) ==
    LET fa == FirstReg(regLog[a].topic)
        fb == FirstReg(regLog[b].topic)
    IN  fa < fb \/ (fa = fb /\ a < b)

\* C10: the handlers of one message are posted in a fixed order: patterns in
\* the order of their first registration, and the handlers of one pattern in
\* the order of their registration.
C10_DispatchInRegistrationOrder ==
    \A i, j \in 1..Len(dpc.sched) : i < j => Before(dpc.sched[i], dpc.sched[j])

\* two handlers have been posted for one message
C10_Witness ==
    /\ dpc.pc = "msg_iter"
    /\ Len(dpc.sched) = 2
    /\ idleQueue = << SourceOf(dpc.sched[1]), SourceOf(dpc.sched[2]) >>

\* C11: handler sources reach the main loop in the order the transport
\* delivered their messages: the pending sources of an earlier message are ahead
\* of those of a later one, the main loop runs the oldest first, and _on_message
\* is through with one message before it is called with the next.
C11_MessagesInDeliveryOrder ==
    /\ [](\A i, j \in 1..Len(idleQueue) :
             (i < j /\ idleQueue[i].msg > 0 /\ idleQueue[j].msg > 0)
             => idleQueue[i].msg <= idleQueue[j].msg)
    /\ [](dpc.pc = "msg_iter" => dpc.msg = delivered)
    /\ [](\A i \in 1..Len(idleQueue) : idleQueue[i].msg <= delivered)
    /\ [][ /\ delivered' # delivered =>
                 (dpc.pc = "idle" /\ dpc'.msg = delivered' /\ idleQueue' = idleQueue)
           /\ run_idle =>
                 \A i \in 1..Len(idleQueue') :
                    idleQueue'[i].msg = 0 \/ Head(idleQueue).msg <= idleQueue'[i].msg
         ]_vars

\* a handler source of the first message and one of the second are pending
C11_Witness ==
    /\ delivered = 2
    /\ Len(idleQueue) = 2
    /\ idleQueue[1].msg = 1
    /\ idleQueue[2].msg = 2

\* q2 is q1 with sources added at its end
Extends(q2, q1) == Len(q1) <= Len(q2) /\ SubSeq(q2, 1, Len(q1)) = q1

Disconnects == on_disconnect \/ \E o \in { "raises", "reports", "silent" } : disconnect(o)

\* C17: a disconnect, whether disconnect() or a report of the transport, removes
\* no idle source: the sources that were pending are still pending after it, in
\* their order; a source leaves the queue only when the main loop runs it, once,
\* and the main loop can run it whatever the connection is by then.
C17_QueuedHandlersSurviveDisconnect ==
    /\ [][ /\ Disconnects => Extends(idleQueue', idleQueue)
           /\ ~Extends(idleQueue', idleQueue) =>
                 /\ run_idle \/ run_idle_raising
                 /\ idleQueue' = Tail(idleQueue)
         ]_vars
    /\ []((link = "down" /\ cpc.pc = "idle" /\ idleQueue # << >>)
           => ENABLED (run_idle \/ run_idle_raising))

\* disconnect() was called with a handler source pending: the source is still
\* there, ahead of the disconnect callback
C17_Witness ==
    /\ link = "down"
    /\ ~loopRunning
    /\ ~connected
    /\ Len(idleQueue) = 2
    /\ idleQueue[1].msg > 0
    /\ idleQueue[2] = lifecycle_source("on_disconnected")

\* C18: no step of _on_connect, _on_disconnect or _on_message, which run on the
\* network-loop thread, changes self.connected; only the consumer thread does.
C18_FlagWrittenOnConsumerOnly ==
    [][ OnDeliveryContext => UNCHANGED connected ]_vars

\* the registry after a step holds what it held, in the same order, and more
RegistryGrows ==
    /\ Len(message_handlers) <= Len(message_handlers')
    /\ \A i \in 1..Len(message_handlers) :
          /\ message_handlers'[i].topic = message_handlers[i].topic
          /\ Extends(message_handlers'[i].handlers, message_handlers[i].handlers)

\* a step of subscribe()
SubscribeStep == cpc.pc = "subscribe" \/ cpc'.pc = "subscribe" \/ regLog' # regLog

\* C19: _on_connect, _on_disconnect and _on_message leave the registry as it
\* is; only subscribe(), on the consumer thread, changes it, and only by adding
\* a pattern or appending a handler: nothing is removed or reordered.
C19_RegistryChangedBySubscribeOnly ==
    [][ /\ OnDeliveryContext => UNCHANGED message_handlers
        /\ message_handlers' # message_handlers => (SubscribeStep /\ RegistryGrows)
      ]_vars

\* two handlers are registered and _on_message has gone through the registry
C19_Witness ==
    /\ Len(regLog) = 2
    /\ connected
    /\ dpc.pc = "msg_iter"
    /\ dpc.pos = Len(message_handlers)
    /\ dpc.sched # << >>

\* C20: the network-loop thread never reads the registry: neither the loop
\* that resubscribes after a connect nor the lookup of a message's handlers
\* runs on it.
C20_NoRegistryReadOnDelivery == ~registry_iterator_open

\* the segments of a string
Segments(str) == split(str, 1, << >>)

\* the string "a/b", and so on
S_ab == << "a", "/", "b" >>
S_hash == << "#" >>
S_ab_hash == << "a", "/", "b", "/", "#" >>
S_aba == << "a", "/", "b", "/", "a" >>
S_abab == << "a", "/", "b", "/", "a", "/", "b" >>
S_a_plus_plus == << "a", "/", "+", "/", "+" >>

\* C12: for a pattern with no segment '+' or '#', _topic_matches(T, P) is true
\* exactly when T and P are the same string.
C12_LiteralPatternMatchesItself ==
    (matcher.called /\ \A i \in 1..Len(Segments(matcher.pattern)) :
                          Segments(matcher.pattern)[i] \notin { << "+" >>, << "#" >> })
    => (matcher.result <=> matcher.topic = matcher.pattern)

\* "a/b" was matched against the pattern "a/b"
C12_Witness ==
    /\ matcher.called
    /\ matcher.topic = S_ab
    /\ matcher.pattern = S_ab
    /\ matcher.result

\* C13: _topic_matches(T, "#") is true for every topic T, the empty one included.
C13_BareHashMatchesAll ==
    (matcher.called /\ matcher.pattern = S_hash) => matcher.result

\* the empty topic was matched against "#"
C13_Witness ==
    /\ matcher.called
    /\ matcher.topic = << >>
    /\ matcher.pattern = S_hash
    /\ matcher.result

\* C14: for a pattern with no segment '#', _topic_matches(T, P) is true exactly
\* when T and P have as many segments and each segment of P is '+' or equals
\* the segment of T at its position.
C14_PlusBindsOneSegment ==
    LET ts == Segments(matcher.topic)
        ps == Segments(matcher.pattern)
    IN  (matcher.called /\ \A i \in 1..Len(ps) : ps[i] # << "#" >>)
        => (matcher.result <=>
               /\ Len(ts) = Len(ps)
               /\ \A i \in 1..Len(ps) : ps[i] = << "+" >> \/ ps[i] = ts[i])

\* "a/b/a" was matched against "a/+/+"
C14_Witness ==
    /\ matcher.called
    /\ matcher.topic = S_aba
    /\ matcher.pattern = S_a_plus_plus
    /\ matcher.result

\* C15: for a pattern s1/.../sn/# whose only '#' is its last segment,
\* _topic_matches(T, P) is true exactly when T has at least n segments and its
\* first n segments match s1..sn, each equal or against '+'; what follows them,
\* if anything, does not count.
C15_HashMatchesTheRest ==
    LET ts == Segments(matcher.topic)
        ps == Segments(matcher.pattern)
        n == Len(ps) - 1
    IN  (/\ matcher.called
         /\ ps[Len(ps)] = << "#" >>
         /\ \A i \in 1..n : ps[i] # << "#" >>)
        => (matcher.result <=>
               /\ Len(ts) >= n
               /\ \A i \in 1..n : ps[i] = << "+" >> \/ ps[i] = ts[i])

\* "a/b/a/b" was matched against "a/b/#"
C15_Witness ==
    /\ matcher.called
    /\ matcher.topic = S_abab
    /\ matcher.pattern = S_ab_hash
    /\ matcher.result

S_hash_b == << "#", "/", "b" >>

\* C25: the test of line 157 changes no result: for every topic and pattern,
\* _topic_matches returns what lines 160-178 alone would return.
C25_ShortcutIsOptimisation ==
    matcher.called
    => (matcher.result <=> segments_match(matcher.topic, matcher.pattern))

\* C22: a message whose payload is empty, or is not JSON, is dispatched with
\* the empty mapping {} as its payload.
C22_BadPayloadIsEmptyMapping ==
    [][ \A b \in { B_empty, B_not_json } :
           on_message_begin(T_ab, b) =>
              (dpc'.pc = "msg_iter" /\ dpc'.payload = "{}")
      ]_vars

\* the decoded value is a dict
is_mapping(val) == val \in { "{}", "{'value': True}" }

\* C29: every handler source carries a mapping: a payload that is JSON but not
\* an object reaches no handler.
C29_HandlersGetMappingsOnly ==
    \A i \in 1..Len(idleQueue) :
        idleQueue[i].msg > 0 => is_mapping(idleQueue[i].payload)

\* C21: the transport starts a connection attempt only when the application
\* calls connect(); after a failed connect, a refused one or a disconnection
\* nothing connects again by itself.
C21_NoAutomaticRetry ==
    [][ (link' = "pending" /\ link # "pending") => connect_starts ]_vars

Publishes == \E o \in { "returns", "dumps raises", "publish raises" } : publish(o)

\* a step of _on_message
OnMessageStep ==
    \/ \E b \in { B_obj, B_not_utf8, B_not_json, B_empty, B_list } :
          on_message_begin(T_ab, b)
    \/ on_message_next

\* a step that subscribe() takes
SubscribeTakesStep == cpc' # cpc \/ regLog' # regLog

\* C24: self.connected changes only when the transport reports a connection
\* or a disconnection, the latter also inside disconnect(); subscribe(),
\* publish() and _on_message leave it as it is, on their error paths too.
C24_FlagChangesOnLifecycleOnly ==
    [][ /\ (SubscribeTakesStep \/ Publishes \/ OnMessageStep) => UNCHANGED connected
        /\ connected' # connected =>
              (on_connect_accepted \/ on_disconnect \/ disconnect("reports"))
      ]_vars

\* while connected, publish() has failed, subscribe() has been refused a
\* pattern and _on_message has dropped a message
C24_Witness ==
    /\ connected
    /\ { 97, 141 } \subseteq errors
    /\ \E i \in 1..Len(message_handlers) :
          /\ message_handlers[i].topic = P_bad
          /\ message_handlers[i].handlers = << >>
    /\ cpc.pc = "idle"

\* C26: publish() never lets an exception out: when json.dumps or
\* client.publish raises, the failure is logged and publish() returns; in every
\* case the registry, the flag and everything else of the client are as they
\* were, connected or not.
C26_PublishNeverRaises ==
    [][ /\ \A o \in { "dumps raises", "publish raises" } :
              publish(o) => (97 \in errors' /\ published' = published)
        /\ Publishes =>
              UNCHANGED << connected, message_handlers, regLog, idleQueue, cpc,
                           dpc, loopRunning, link >>
        /\ published' # published => (published' = published + 1 /\ publish("returns"))
      ]_vars

\* publish() has failed and has succeeded, while not connected
C26_Witness ==
    /\ ~connected
    /\ 97 \in errors
    /\ published = 2
    /\ message_handlers # << >>

\* C27: a pattern that subscribe() adds while _on_message or _on_connect is
\* in its loop over the registry does not disturb the loop: every handler
\* registered under a matching pattern before the message arrived is posted,
\* every pattern registered before the connection is resubscribed, and the
\* connect callback is posted.
C27_SubscribeDuringLoopIsHarmless ==
    [][ /\ OnMessageReturns =>
              \A n \in 1..dpc.regs0 :
                 topic_matches(dpc.topic, regLog[n].topic) => Count(dpc.sched, n) >= 1
        /\ OnConnectReturns =>
              /\ dpc.pos >= dpc.used
              /\ connect_callback # "None" => ConnectPosted
      ]_vars

\* C28: once the connection is up and neither subscribe() nor _on_connect is
\* under way, every pattern that subscribe() has registered has been subscribed
\* on this connection.
C28_NoSubscriptionLostToConnect ==
    (link = "up" /\ cpc.pc = "idle" /\ dpc.pc # "conn_iter")
    => \A k \in 1..Len(regLog) : regLog[k].topic \in brokerSubs

\* C30: _on_mqtt_connected and _on_mqtt_disconnected never run before
\* _build_main_window has created mqtt_status_label, whenever the transport
\* reports after connect(); and when connect() returned False the window is
\* never built and the application quits.
C30_StatusLabelBeforeCallbacks ==
    /\ [][ (run_idle /\ Head(idleQueue).cb \in { "on_connected", "on_disconnected" })
           => app.label ]_vars
    /\ [](connectResult = "False" =>
            (~app.label /\ app.pc \in { "login", "error dialog", "quit" }))
    /\ [][ (app.pc = "error dialog" /\ app' # app) => app'.pc = "quit" ]_vars

\* the transport has reported and the connect callback is pending while
\* _build_main_window has not yet created the label
C30_Witness ==
    /\ app.pc = "building"
    /\ ~app.label
    /\ connected
    /\ idleQueue = << lifecycle_source("on_connected") >>

====
